---- MODULE Spec2Model ----
(***************************************************************************)
(* Ghost OS vision sidecar (src/vision-sidecar/server.py): the lazily      *)
(* loaded model cache, the idle timer, the HTTP request handlers and the   *)
(* start-up sequence of main().                                            *)
(*                                                                         *)
(* Caller 0 is the main thread: it runs main() and, inside serve_forever   *)
(* of the single-threaded HTTPServer (line 560), do_GET / do_POST for one  *)
(* request at a time.  Timer threads are the entries of `timers`.          *)
(* Callers 1..NCallers are further threads that call _load_vlm; they move  *)
(* only under LoadSpec, which exercises _load_vlm under concurrent calls,  *)
(* and under GroundSpec, where caller 1 runs the try block of              *)
(* _handle_ground and _vlm_ground step by step, with the coordinate        *)
(* arithmetic and the temporary files.  PathSpec applies                   *)
(* resolve_model_path to every file-system content; LiveSpec is the server *)
(* under fair scheduling; ResetSpec calls _reset_idle_timer from callers   *)
(* 1..NCallers at once.                                                    *)
(***************************************************************************)
EXTENDS Integers, Sequences, FiniteSets, TLC

\* ---- bounds of the model ----
NCallers == 3
MaxTimers == 3
MaxTime == 3
Timeout == 2
\* line 53
DefaultIdleTimeout == 600

None == "None"
\* no thread holds the lock / no Timer object / no exit yet
Free == -1
NoTimerId == 0
Running == -1
Main == 0
Threads == 1..NCallers
Callers == 0..NCallers
TimerIds == 1..MaxTimers

VARIABLES
  vlm_model, vlm_processor, vlm_tokenizer, vlm_lock, vlm_load_error,
  IDLE_TIMEOUT, idle_timer, idle_lock, timers, now,
  server_instance, sigterm, shutdown_requested, mode, exit_code,
  pc, req, resp, loadRet,
  loadAttempts, rets, lastArrival,
  explicit_path, fs, MODEL_PATH,
  data, tmpfiles, full_text, result, sent_status

cache == <<vlm_model, vlm_processor, vlm_tokenizer, vlm_load_error>>
vlmvars == <<vlm_model, vlm_processor, vlm_tokenizer, vlm_lock, vlm_load_error,
             loadAttempts, rets, loadRet>>
idlevars == <<idle_timer, idle_lock, timers>>
procvars == <<server_instance, sigterm, shutdown_requested, mode, exit_code>>
vars == <<vlm_model, vlm_processor, vlm_tokenizer, vlm_lock, vlm_load_error,
          IDLE_TIMEOUT, idle_timer, idle_lock, timers, now,
          server_instance, sigterm, shutdown_requested, mode, exit_code,
          pc, req, resp, loadRet, loadAttempts, rets, lastArrival,
          explicit_path, fs, MODEL_PATH,
          data, tmpfiles, full_text, result, sent_status>>
servervars == <<vlmvars, IDLE_TIMEOUT, idlevars, now, procvars, pc, req, resp,
                lastArrival>>
pathvars == <<explicit_path, fs, MODEL_PATH>>
groundvars == <<data, tmpfiles, full_text, result, sent_status>>
purevars == <<pathvars, groundvars>>

\* ---- requests ----
\* body: what do_POST reads from the socket.  "malformed" is a body (or a
\* Content-Length header) that json.loads / int reject; "empty" is no body;
\* "nonobject" is valid JSON that is not an object (a list, a number, null);
\* "object" is a JSON object with the four fields below.
NoReq == [method |-> "-", path |-> "-", body |-> "-",
          image |-> "-", description |-> "-", screen |-> "-", crop_box |-> "-"]

GetRequests ==
  { [NoReq EXCEPT !.method = "GET", !.path = p] : p \in {"/health", "/other"} }

StubRequests ==
  { [NoReq EXCEPT !.method = "POST", !.path = p, !.body = b] :
      p \in {"/detect", "/parse", "/other"},
      b \in {"malformed", "empty", "nonobject", "object"} }

GroundRequests ==
  { [NoReq EXCEPT !.method = "POST", !.path = "/ground", !.body = b] :
      b \in {"malformed", "empty", "nonobject"} }
  \cup
  { [method |-> "POST", path |-> "/ground", body |-> "object",
     image |-> i, description |-> d, screen |-> s, crop_box |-> c] :
      i \in {"missing", "png", "undecodable"},
      d \in {"missing", "text"},
      s \in {"number", "nonnumeric"},
      c \in {"none", "box", "malformed"} }

Requests == GetRequests \cup StubRequests \cup GroundRequests

NoTimer == [st |-> "unused", deadline |-> 0, finished |-> FALSE]

\* ---- model path resolution: inputs of resolve_model_path ----
\* lines 76-80: the fixed candidates, in order
FixedCandidates ==
  << "/opt/homebrew/share/ghost-os/models/ShowUI-2B",
     "~/.ghost-os/models/ShowUI-2B",
     "~/.shadow/models/llm/ShowUI-2B-bf16-8bit" >>
\* --model-path: absent (None), empty, a path of its own, or one of the fixed
ExplicitPaths == {None, "", "/custom/ShowUI-2B", FixedCandidates[2]}
Paths == {"/custom/ShowUI-2B"} \cup {FixedCandidates[i] : i \in 1..3}
\* what the file system holds at a path
Entries == {"absent", "file", "dir", "dir_safetensors", "dir_config"}

\* ---- /ground processing: inputs and results ----
\* Absolute coordinates are counted in tenths of a point and normalized ones
\* in ten-thousandths (the precisions of round(., 1) and round(., 4)); the
\* numbers in the model output are counted in hundredths.
\* screen_w / screen_h after float() (lines 323-324), in points
ScreenDims == {0, 3, 1000}
\* crop_box (line 325): <<>> is falsy (absent or empty), a 4-list is a box in
\* points, any other length fails to unpack at line 354
CropBoxes == { <<>>, <<1, 2>>, <<100, 100, 600, 600>>, <<1, 1, 3, 3>> }
\* numbers the model may write, in hundredths: 0.35 ... 2000.00
Coords == {0, 35, 50, 100, 1234, 200000}
\* full_text by what lines 201-203 make of it: no match of the pattern, a
\* match whose groups float() rejects ("0.5.1", "."), or a pair (a, b)
ModelOutputs ==
  { [kind |-> k, a |-> 0, b |-> 0] : k \in {"nomatch", "badnumber"} }
    \cup { [kind |-> "pair", a |-> a, b |-> b] : a \in Coords, b \in Coords }
NoText == [kind |-> "-", a |-> 0, b |-> 0]
NoData == [image |-> "-", screen_w |-> 0, screen_h |-> 0, crop_box |-> <<>>]
NoResult ==
  [x |-> 0, y |-> 0, normalized_x |-> 0, normalized_y |-> 0, confidence |-> 0,
   error |-> FALSE, method |-> "-", crop_box |-> <<>>]
\* the thread that handles the /ground request
Gt == 1

Init ==
  /\ data = NoData /\ tmpfiles = {} /\ full_text = NoText
  /\ result = NoResult /\ sent_status = 0
  /\ explicit_path = None /\ MODEL_PATH = ""
  /\ fs = [p \in Paths |-> "absent"]
  /\ vlm_model = None /\ vlm_processor = None /\ vlm_tokenizer = None
  /\ vlm_lock = Free /\ vlm_load_error = None
  /\ IDLE_TIMEOUT = DefaultIdleTimeout
  /\ idle_timer = NoTimerId /\ idle_lock = Free
  /\ timers = [i \in TimerIds |-> NoTimer]
  /\ now = 0
  /\ server_instance = None /\ sigterm = FALSE /\ shutdown_requested = FALSE
  /\ mode = None /\ exit_code = Running
  /\ pc = [t \in Callers |-> IF t = Main THEN "main" ELSE "idle"]
  /\ req = [t \in Callers |-> NoReq]
  /\ resp = [t \in Callers |-> <<>>]
  /\ loadRet = [t \in Callers |-> None]
  /\ loadAttempts = 0 /\ rets = {} /\ lastArrival = -1

\* ---- the model cache: _load_vlm ----
\* line 105: the cached-success test
ModelCachedNever == FALSE
ModelCached == vlm_model # None
\* line 107: the cached-failure test
ErrorCachedNever == FALSE
ErrorCached == vlm_load_error # None

\* return from _load_vlm with value v (the with-block releases the lock)
LoadReturn(t, v) ==
  /\ pc' = [pc EXCEPT ![t] = "load_ret"]
  /\ loadRet' = [loadRet EXCEPT ![t] = v]
  /\ rets' = rets \cup {v}
  /\ vlm_lock' = Free

\* lines 104-111: take the lock, answer from the cache or start the load
LoadEnter(t) ==
  /\ pc[t] = "load_vlm"
  /\ vlm_lock = Free
  /\ \/ /\ ModelCached
        /\ LoadReturn(t, "True")
        /\ UNCHANGED <<cache, loadAttempts>>
     \/ /\ ~ModelCached /\ ErrorCached
        /\ LoadReturn(t, "False")
        /\ UNCHANGED <<cache, loadAttempts>>
     \/ /\ ~ModelCached /\ ~ErrorCached
        /\ vlm_lock' = t
        /\ loadAttempts' = loadAttempts + 1
        /\ pc' = [pc EXCEPT ![t] = "load_model"]
        /\ UNCHANGED <<cache, loadRet, rets>>
  /\ UNCHANGED <<purevars, IDLE_TIMEOUT, idlevars, now, procvars, req, resp, lastArrival>>

\* lines 129-133: the except branch stores the error and returns False
LoadFail(t) ==
  /\ vlm_load_error' = "error"
  /\ LoadReturn(t, "False")

\* lines 114-115: mlx_vlm.load assigns model and processor, or raises
LoadModel(t) ==
  /\ pc[t] = "load_model"
  /\ \/ /\ vlm_model' = "model"
        /\ vlm_processor' = "fast"
        /\ pc' = [pc EXCEPT ![t] = "load_image_processor"]
        /\ UNCHANGED <<vlm_tokenizer, vlm_load_error, vlm_lock, loadRet, rets>>
     \/ /\ LoadFail(t)
        /\ UNCHANGED <<vlm_model, vlm_processor, vlm_tokenizer>>
  /\ UNCHANGED <<purevars, loadAttempts, IDLE_TIMEOUT, idlevars, now, procvars, req, resp, lastArrival>>

\* lines 119-122: replace the image processor by the slow one, or raise
LoadImageProcessor(t) ==
  /\ pc[t] = "load_image_processor"
  /\ \/ /\ vlm_processor' = "slow"
        /\ pc' = [pc EXCEPT ![t] = "load_tokenizer"]
        /\ UNCHANGED <<vlm_model, vlm_tokenizer, vlm_load_error, vlm_lock, loadRet, rets>>
     \/ /\ LoadFail(t)
        /\ UNCHANGED <<vlm_model, vlm_processor, vlm_tokenizer>>
  /\ UNCHANGED <<purevars, loadAttempts, IDLE_TIMEOUT, idlevars, now, procvars, req, resp, lastArrival>>

\* lines 124-128: load the tokenizer and return True, or raise
LoadTokenizer(t) ==
  /\ pc[t] = "load_tokenizer"
  /\ \/ /\ vlm_tokenizer' = "tokenizer"
        /\ LoadReturn(t, "True")
        /\ UNCHANGED <<vlm_model, vlm_processor, vlm_load_error>>
     \/ /\ LoadFail(t)
        /\ UNCHANGED <<vlm_model, vlm_processor, vlm_tokenizer>>
  /\ UNCHANGED <<purevars, loadAttempts, IDLE_TIMEOUT, idlevars, now, procvars, req, resp, lastArrival>>

load_vlm(t) ==
  LoadEnter(t) \/ LoadModel(t) \/ LoadImageProcessor(t) \/ LoadTokenizer(t)

\* ---- the idle timer: _reset_idle_timer, threading.Timer, _idle_shutdown ----
\* Timer.cancel(): set the finished event; a timer still waiting wakes up,
\* sees the event set and ends without calling its function
Cancel(tm) ==
  [tm EXCEPT !.finished = TRUE,
             !.st = IF tm.st = "waiting" THEN "done" ELSE tm.st]

\* the timer the reset cancels, if any (lines 252-253)
CancelPending(ts, cur) ==
  IF cur # NoTimerId THEN [ts EXCEPT ![cur] = Cancel(ts[cur])] ELSE ts

\* a slot for a new Timer object: one whose thread has ended and that the
\* global no longer names once the assignment of line 254 is done
FreeSlots == { i \in TimerIds : timers[i].st \in {"unused", "done"} }
NewTimer == CHOOSE i \in FreeSlots : \A j \in FreeSlots : i <= j

\* where a caller of _reset_idle_timer continues
AfterReset(t) == IF req[t] = NoReq THEN "bind" ELSE "route"

\* line 248: the timer is disabled
TimerDisabledOnlyNegative == IDLE_TIMEOUT < 0
TimerDisabled == IDLE_TIMEOUT <= 0

\* lines 248-249
ResetDisabled(t) ==
  /\ pc[t] = "reset"
  /\ TimerDisabled
  /\ pc' = [pc EXCEPT ![t] = AfterReset(t)]
  /\ UNCHANGED <<purevars, vlmvars, IDLE_TIMEOUT, idlevars, now, procvars, req, resp, lastArrival>>

\* lines 251-253
ResetCancelNoLock(t) ==
  /\ pc[t] = "reset"
  /\ ~TimerDisabled
  /\ idle_lock' = t
  /\ timers' = CancelPending(timers, idle_timer)
  /\ pc' = [pc EXCEPT ![t] = "reset_start"]
  /\ UNCHANGED <<purevars, vlmvars, IDLE_TIMEOUT, idle_timer, now, procvars, req, resp, lastArrival>>
ResetCancel(t) ==
  /\ pc[t] = "reset"
  /\ ~TimerDisabled
  /\ idle_lock = Free
  /\ idle_lock' = t
  /\ timers' = CancelPending(timers, idle_timer)
  /\ pc' = [pc EXCEPT ![t] = "reset_start"]
  /\ UNCHANGED <<purevars, vlmvars, IDLE_TIMEOUT, idle_timer, now, procvars, req, resp, lastArrival>>

\* lines 254-256
ResetStart(t) ==
  /\ pc[t] = "reset_start"
  /\ FreeSlots # {}
  /\ timers' = [timers EXCEPT ![NewTimer] =
                  [st |-> "waiting", deadline |-> now + IDLE_TIMEOUT, finished |-> FALSE]]
  /\ idle_timer' = NewTimer
  /\ idle_lock' = Free
  /\ pc' = [pc EXCEPT ![t] = AfterReset(t)]
  /\ UNCHANGED <<purevars, vlmvars, IDLE_TIMEOUT, now, procvars, req, resp, lastArrival>>

reset_idle_timer(t) == ResetDisabled(t) \/ ResetCancel(t) \/ ResetStart(t)

\* Timer.run(): the wait of `interval` seconds is over and the finished
\* event is not set, so the function will be called
TimerExpire(i) ==
  /\ timers[i].st = "waiting"
  /\ ~timers[i].finished
  /\ now >= timers[i].deadline
  /\ timers' = [timers EXCEPT ![i].st = "running"]
  /\ UNCHANGED <<purevars, vlmvars, IDLE_TIMEOUT, idle_timer, idle_lock, now, procvars,
                 pc, req, resp, lastArrival>>

\* lines 259-263: os.kill(os.getpid(), SIGTERM)
idle_shutdown_no_kill(i) ==
  /\ timers[i].st = "running"
  /\ timers' = [timers EXCEPT ![i].st = "done", ![i].finished = TRUE]
  /\ UNCHANGED <<purevars, vlmvars, IDLE_TIMEOUT, idle_timer, idle_lock, now, procvars,
                 pc, req, resp, lastArrival>>
idle_shutdown(i) ==
  /\ timers[i].st = "running"
  /\ timers' = [timers EXCEPT ![i].st = "done", ![i].finished = TRUE]
  /\ sigterm' = TRUE
  /\ UNCHANGED <<purevars, vlmvars, IDLE_TIMEOUT, idle_timer, idle_lock, now,
                 server_instance, shutdown_requested, mode, exit_code,
                 pc, req, resp, lastArrival>>

\* time passes
Tick ==
  /\ now < MaxTime
  /\ pc[Main] \notin {"exited", "stopped"}
  /\ now' = now + 1
  /\ UNCHANGED <<purevars, vlmvars, IDLE_TIMEOUT, idlevars, procvars, pc, req, resp, lastArrival>>

\* ---- the request handlers ----
\* _send_json (lines 439-445): one response with the given status
Send(t, status) ==
  /\ resp' = [resp EXCEPT ![t] = Append(resp[t], status)]
  /\ pc' = [pc EXCEPT ![t] = "done"]

\* an exception that leaves do_GET / do_POST: socketserver logs it and closes
\* the connection, nothing is written to the client
Uncaught(t) ==
  /\ pc' = [pc EXCEPT ![t] = "done"]
  /\ UNCHANGED resp

\* a connection is accepted and do_GET / do_POST is entered (lines 271, 278);
\* serve_forever (line 569) tests the shutdown flag before it handles a request
Arrive(t, r) ==
  /\ pc[t] = "serving"
  /\ ~shutdown_requested
  /\ req' = [req EXCEPT ![t] = r]
  /\ pc' = [pc EXCEPT ![t] = "reset"]
  /\ lastArrival' = now
  /\ UNCHANGED <<purevars, vlmvars, IDLE_TIMEOUT, idlevars, now, procvars, resp>>

\* lines 297-312: reads the cache, always 200
handle_health_loading(t) ==
  /\ pc' = [pc EXCEPT ![t] = "load_vlm"]
  /\ UNCHANGED resp
handle_health(t) == Send(t, 200)

\* lines 273-276
do_GET(t) ==
  /\ pc[t] = "route"
  /\ req[t].method = "GET"
  /\ IF req[t].path = "/health" THEN handle_health(t) ELSE Send(t, 404)
  /\ UNCHANGED <<purevars, vlmvars, IDLE_TIMEOUT, idlevars, now, procvars, req, lastArrival>>

\* lines 280-286: int(Content-Length), read, json.loads; JSONDecodeError and
\* ValueError are caught.  An empty body becomes {}.
BodyParsesUnchecked(r) == TRUE
BodyParses(r) == r.body # "malformed"

\* data.get(f) of lines 321-325 on the parsed object ({} for an empty body)
Field(r, f) ==
  IF r.body = "empty"
    THEN (CASE f = "image" -> "missing"
            [] f = "description" -> "missing"
            [] f = "screen" -> "number"
            [] f = "crop_box" -> "none")
    ELSE r[f]

\* lines 321-332 of _handle_ground, which run outside its try block:
\* data.get on a non-object raises AttributeError, float() of a non-numeric
\* screen_w / screen_h raises ValueError or TypeError; then the two
\* required-field tests
GroundCheck(r) ==
  IF r.body = "nonobject" THEN "raise"
  ELSE IF Field(r, "screen") = "nonnumeric" THEN "raise"
  ELSE IF Field(r, "image") = "missing" THEN "400"
  ELSE IF Field(r, "description") = "missing" THEN "400"
  ELSE "load"

\* lines 321-335: up to the call of _load_vlm
handle_ground(t) ==
  CASE GroundCheck(req[t]) = "raise" -> Uncaught(t)
    [] GroundCheck(req[t]) = "400" -> Send(t, 400)
    [] GroundCheck(req[t]) = "load" ->
         /\ pc' = [pc EXCEPT ![t] = "load_vlm"]
         /\ UNCHANGED resp

\* lines 411-437: the two placeholders
handle_detect(t) == Send(t, 200)
handle_parse_unimplemented(t) == Send(t, 501)
handle_parse(t) == Send(t, 200)

\* lines 279-295
do_POST(t) ==
  /\ pc[t] = "route"
  /\ req[t].method = "POST"
  /\ IF ~BodyParses(req[t]) THEN Send(t, 400)
     ELSE CASE req[t].path = "/ground" -> handle_ground(t)
            [] req[t].path = "/detect" -> handle_detect(t)
            [] req[t].path = "/parse" -> handle_parse(t)
            [] OTHER -> Send(t, 404)
  /\ UNCHANGED <<purevars, vlmvars, IDLE_TIMEOUT, idlevars, now, procvars, req, lastArrival>>

\* lines 335-341: the result of _load_vlm decides between 503 and grounding
GroundAfterLoad(t) ==
  /\ pc[t] = "load_ret"
  /\ req[t] # NoReq
  /\ IF loadRet[t] = "False"
       THEN Send(t, 503)
       ELSE /\ pc' = [pc EXCEPT ![t] = "grounding"]
            /\ UNCHANGED resp
  /\ UNCHANGED <<purevars, vlmvars, IDLE_TIMEOUT, idlevars, now, procvars, req, lastArrival>>

\* lines 343-409 with _vlm_ground (136-236): everything inside the try block.
\* b64decode / Image.open raise on an undecodable image, the unpacking of
\* line 354 raises on a malformed crop_box, line 176 raises AttributeError
\* when _vlm_tokenizer is None; `raises` is any other exception of the image
\* library or of the inference.
GroundRaises(r, raises) ==
  \/ Field(r, "image") = "undecodable"
  \/ Field(r, "crop_box") = "malformed"
  \/ vlm_tokenizer = None
  \/ raises

Grounding(t) ==
  /\ pc[t] = "grounding"
  /\ \E raises \in BOOLEAN :
       IF GroundRaises(req[t], raises) THEN Send(t, 500) ELSE Send(t, 200)
  /\ UNCHANGED <<purevars, vlmvars, IDLE_TIMEOUT, idlevars, now, procvars, req, lastArrival>>

\* the handler returns to serve_forever
Finish(t) ==
  /\ pc[t] = "done"
  /\ pc' = [pc EXCEPT ![t] = "serving"]
  /\ req' = [req EXCEPT ![t] = NoReq]
  /\ resp' = [resp EXCEPT ![t] = <<>>]
  /\ loadRet' = [loadRet EXCEPT ![t] = None]
  /\ UNCHANGED <<purevars, cache, vlm_lock, loadAttempts, rets, IDLE_TIMEOUT, idlevars, now,
                 procvars, lastArrival>>

\* ---- main() and signals ----
\* lines 519-537 and 552-554: the arguments, then --health-check or --preload
MainStart ==
  /\ pc[Main] = "main"
  /\ \E timeout \in {-1, 0, Timeout}, health_check \in BOOLEAN, isdir \in BOOLEAN,
        preload \in BOOLEAN :
       /\ IDLE_TIMEOUT' = timeout
       /\ IF health_check
            THEN IF ~isdir
                   THEN /\ exit_code' = 1
                        /\ mode' = "health_check"
                        /\ pc' = [pc EXCEPT ![Main] = "exited"]
                   ELSE /\ mode' = "health_check"
                        /\ pc' = [pc EXCEPT ![Main] = "load_vlm"]
                        /\ UNCHANGED exit_code
            ELSE /\ mode' = IF preload THEN "preload" ELSE "serve"
                 /\ pc' = [pc EXCEPT ![Main] = IF preload THEN "load_vlm" ELSE "reset"]
                 /\ UNCHANGED exit_code
  /\ UNCHANGED <<purevars, vlmvars, idlevars, now, server_instance, sigterm, shutdown_requested,
                 req, resp, lastArrival>>

\* lines 532-537 (health check) and 554-557 (preload ignores the result)
MainAfterLoadExitsZero ==
  /\ pc[Main] = "load_ret"
  /\ req[Main] = NoReq
  /\ IF mode = "health_check"
       THEN /\ exit_code' = 0
            /\ pc' = [pc EXCEPT ![Main] = "exited"]
       ELSE /\ pc' = [pc EXCEPT ![Main] = "reset"]
            /\ UNCHANGED exit_code
  /\ UNCHANGED <<purevars, vlmvars, IDLE_TIMEOUT, idlevars, now, server_instance, sigterm,
                 shutdown_requested, mode, req, resp, lastArrival>>
MainAfterLoad ==
  /\ pc[Main] = "load_ret"
  /\ req[Main] = NoReq
  /\ IF mode = "health_check"
       THEN /\ exit_code' = IF loadRet[Main] = "True" THEN 0 ELSE 1
            /\ pc' = [pc EXCEPT ![Main] = "exited"]
       ELSE /\ pc' = [pc EXCEPT ![Main] = "reset"]
            /\ UNCHANGED exit_code
  /\ UNCHANGED <<purevars, vlmvars, IDLE_TIMEOUT, idlevars, now, server_instance, sigterm,
                 shutdown_requested, mode, req, resp, lastArrival>>

\* lines 564-569: the server is created and serve_forever starts
MainBind ==
  /\ pc[Main] = "bind"
  /\ server_instance' = "server"
  /\ pc' = [pc EXCEPT ![Main] = "serving"]
  /\ UNCHANGED <<purevars, vlmvars, IDLE_TIMEOUT, idlevars, now, sigterm, shutdown_requested,
                 mode, exit_code, req, resp, lastArrival>>

\* lines 464-473: the handler of SIGTERM runs on the main thread
signal_handler ==
  /\ sigterm
  /\ pc[Main] \notin {"exited", "stopped"}
  /\ sigterm' = FALSE
  /\ IF server_instance # None
       THEN /\ shutdown_requested' = TRUE
            /\ UNCHANGED <<pc, exit_code>>
       ELSE /\ pc' = [pc EXCEPT ![Main] = "exited"]
            /\ exit_code' = 0
            /\ UNCHANGED shutdown_requested
  /\ UNCHANGED <<purevars, vlmvars, IDLE_TIMEOUT, idlevars, now, server_instance, mode,
                 req, resp, lastArrival>>

\* lines 568-574: shutdown() makes serve_forever return once the request it
\* is handling is answered
ServeForeverExit ==
  /\ pc[Main] = "serving"
  /\ shutdown_requested
  /\ pc' = [pc EXCEPT ![Main] = "stopped"]
  /\ exit_code' = 0
  /\ UNCHANGED <<purevars, vlmvars, IDLE_TIMEOUT, idlevars, now, server_instance, sigterm,
                 shutdown_requested, mode, req, resp, lastArrival>>

\* ---- concurrent callers of _load_vlm ----
CallLoad(t) ==
  /\ pc[t] = "idle"
  /\ pc' = [pc EXCEPT ![t] = "load_vlm"]
  /\ UNCHANGED <<purevars, cache, vlm_lock, loadAttempts, rets, loadRet, IDLE_TIMEOUT, idlevars,
                 now, procvars, req, resp, lastArrival>>

CallerReturn(t) ==
  /\ pc[t] = "load_ret"
  /\ pc' = [pc EXCEPT ![t] = "idle"]
  /\ UNCHANGED <<purevars, cache, vlm_lock, loadAttempts, rets, loadRet, IDLE_TIMEOUT, idlevars,
                 now, procvars, req, resp, lastArrival>>

\* ---- the server: main(), one request at a time, the timer threads ----
Next ==
  \/ MainStart \/ MainAfterLoad \/ MainBind \/ signal_handler \/ ServeForeverExit
  \/ Tick
  \/ \E i \in TimerIds : TimerExpire(i) \/ idle_shutdown(i)
  \/ load_vlm(Main) \/ reset_idle_timer(Main)
  \/ \E r \in Requests : Arrive(Main, r)
  \/ do_GET(Main) \/ do_POST(Main) \/ GroundAfterLoad(Main) \/ Grounding(Main)
  \/ Finish(Main)

Spec == Init /\ [][Next]_vars

\* ---- _load_vlm called from NCallers threads at once ----
LoadNext ==
  \E t \in Threads : CallLoad(t) \/ load_vlm(t) \/ CallerReturn(t)

LoadSpec == Init /\ [][LoadNext]_vars

\* ---- _reset_idle_timer called from NCallers threads at once ----
\* line 524: IDLE_TIMEOUT = args.idle_timeout, before any thread runs
SetIdleTimeout(timeout) ==
  /\ pc[Main] = "main"
  /\ IDLE_TIMEOUT = DefaultIdleTimeout
  /\ \A t \in Threads : pc[t] = "idle"
  /\ IDLE_TIMEOUT' = timeout
  /\ UNCHANGED <<purevars, vlmvars, idlevars, now, procvars, pc, req, resp, lastArrival>>

\* a thread enters _reset_idle_timer (lines 272, 279)
CallReset(t) ==
  /\ pc[t] = "idle"
  /\ IDLE_TIMEOUT # DefaultIdleTimeout
  /\ pc' = [pc EXCEPT ![t] = "reset"]
  /\ UNCHANGED <<purevars, vlmvars, IDLE_TIMEOUT, idlevars, now, procvars, req, resp,
                 lastArrival>>

\* _reset_idle_timer has returned to it
ResetReturn(t) ==
  /\ pc[t] = AfterReset(t)
  /\ pc' = [pc EXCEPT ![t] = "idle"]
  /\ UNCHANGED <<purevars, vlmvars, IDLE_TIMEOUT, idlevars, now, procvars, req, resp,
                 lastArrival>>

ResetNext ==
  \/ \E timeout \in {-1, 0, Timeout} : SetIdleTimeout(timeout)
  \/ \E t \in Threads : CallReset(t) \/ reset_idle_timer(t) \/ ResetReturn(t)
  \/ Tick
  \/ \E i \in TimerIds : TimerExpire(i) \/ idle_shutdown(i)

ResetSpec == Init /\ [][ResetNext]_vars

\* ---- resolve_model_path as a function of its argument and the file system ----
\* line 72: "if explicit_path"
Truthy(e) == e # None /\ e # ""
\* lines 70-80
Candidates(e) == IF Truthy(e) THEN <<e>> \o FixedCandidates ELSE FixedCandidates
\* line 83: os.path.isdir(path)
isdir(f, p) == f[p] \in {"dir", "dir_safetensors", "dir_config"}
\* lines 85-87: model.safetensors or config.json is a file in the directory
HasModelFileSafetensorsOnly(f, p) == f[p] = "dir_safetensors"
HasModelFile(f, p) == f[p] \in {"dir_safetensors", "dir_config"}

\* lines 82-88: the loop over the candidates; None when it ends without return
RECURSIVE FirstModelDir(_, _)
FirstModelDir(cs, f) ==
  IF cs = <<>> THEN None
  ELSE IF isdir(f, Head(cs)) /\ HasModelFile(f, Head(cs)) THEN Head(cs)
  ELSE FirstModelDir(Tail(cs), f)

\* lines 57-88
resolve_model_path(e, f) ==
  LET candidates == Candidates(e)
      found == FirstModelDir(candidates, f)
  IN  IF found # None THEN found
      ELSE IF candidates # <<>> THEN candidates[1] ELSE FixedCandidates[2]

\* line 523: MODEL_PATH = resolve_model_path(args.model_path)
ResolveModelPath(e, f) ==
  /\ MODEL_PATH = ""
  /\ explicit_path' = e /\ fs' = f
  /\ MODEL_PATH' = resolve_model_path(e, f)
  /\ UNCHANGED <<servervars, groundvars>>

PathNext == \E e \in ExplicitPaths, f \in [Paths -> Entries] : ResolveModelPath(e, f)
PathSpec == Init /\ [][PathNext]_vars

\* ---- /ground after _load_vlm returned True: lines 343-409 and _vlm_ground ----
\* round(n / d, k) counted in units of the k-th decimal, for n >= 0 and d > 0:
\* the nearest integer to n / d; at an exact decimal tie the binary double
\* decides, so either neighbour
Nearest(n, d) ==
  IF 2 * (n % d) < d THEN {n \div d}
  ELSE IF 2 * (n % d) > d THEN {(n \div d) + 1}
  ELSE {n \div d, (n \div d) + 1}

\* line 204
LooksNormalizedEither(a, b) == a <= 100 \/ b <= 100
LooksNormalized(a, b) == a <= 100 /\ b <= 100

\* lines 200-236: the results _vlm_ground can return for the output text and
\* the reference frame (w, h); the empty set when it raises (float() at line
\* 203, division by zero at lines 218-219)
ParseResults(out, w, h) ==
  IF out.kind = "badnumber" THEN {}
  ELSE IF out.kind = "nomatch" THEN
    { [NoResult EXCEPT !.x = x, !.y = y, !.normalized_x = 5000,
                       !.normalized_y = 5000, !.confidence = 0, !.error = TRUE] :
        x \in Nearest(w * 10, 2), y \in Nearest(h * 10, 2) }
  ELSE IF LooksNormalized(out.a, out.b) THEN
    { [NoResult EXCEPT !.x = xy[1], !.y = xy[2], !.normalized_x = nn[1],
                       !.normalized_y = nn[2], !.confidence = 8] :
        xy \in Nearest(out.a * w, 10) \X Nearest(out.b * h, 10),
        nn \in Nearest(out.a * 100, 1) \X Nearest(out.b * 100, 1) }
  ELSE IF w = 0 \/ h = 0 THEN {}
  ELSE
    { [NoResult EXCEPT !.x = xy[1], !.y = xy[2], !.normalized_x = nn[1],
                       !.normalized_y = nn[2], !.confidence = 6] :
        xy \in Nearest(out.a, 10) \X Nearest(out.b, 10),
        nn \in Nearest(out.a * 100, w) \X Nearest(out.b * 100, h) }

\* lines 380-385: crop-local result to full-screen result
MapToScreenCropFrame(r, box, w, h) ==
  { [r EXCEPT !.x = box[1] * 10 + r.x, !.y = box[2] * 10 + r.y,
              !.normalized_x = nn[1], !.normalized_y = nn[2],
              !.method = "crop-based", !.crop_box = box] :
      nn \in Nearest(r.x * 1000, box[3] - box[1])
               \X Nearest(r.y * 1000, box[4] - box[2]) }
MapToScreen(r, box, w, h) ==
  { [r EXCEPT !.x = box[1] * 10 + r.x, !.y = box[2] * 10 + r.y,
              !.normalized_x = nn[1], !.normalized_y = nn[2],
              !.method = "crop-based", !.crop_box = box] :
      nn \in Nearest((box[1] * 10 + r.x) * 1000, w)
               \X Nearest((box[2] * 10 + r.y) * 1000, h) }

GroundPcs == {"decode", "save_crop", "save_full", "vlm_open", "generate", "parse", "map"}
HandlerFile == IF data.crop_box # <<>> THEN "ghost_crop" ELSE "ghost_full"

\* lines 406-409: the except clause answers 500; no temp file is removed
GroundFail ==
  /\ pc' = [pc EXCEPT ![Gt] = "idle"]
  /\ sent_status' = 500
  /\ result' = NoResult

\* line 343 is reached: _load_vlm has returned True (line 335)
GroundBegin(d) ==
  /\ pc[Gt] = "load_ret" /\ loadRet[Gt] = "True"
  /\ pc' = [pc EXCEPT ![Gt] = "decode"]
  /\ data' = d /\ full_text' = NoText /\ result' = NoResult /\ sent_status' = 0
  /\ UNCHANGED <<vlmvars, IDLE_TIMEOUT, idlevars, now, procvars, req, resp,
                 lastArrival, pathvars, tmpfiles>>

\* lines 347-350
GroundDecode ==
  /\ pc[Gt] = "decode"
  /\ IF data.image = "undecodable" THEN GroundFail
     ELSE /\ pc' = [pc EXCEPT ![Gt] =
                     IF data.crop_box # <<>> THEN "save_crop" ELSE "save_full"]
          /\ UNCHANGED <<result, sent_status>>
  /\ UNCHANGED <<vlmvars, IDLE_TIMEOUT, idlevars, now, procvars, req, resp,
                 lastArrival, pathvars, data, tmpfiles, full_text>>

\* lines 354-374: unpack, scale, crop, save the crop
GroundSaveCrop ==
  /\ pc[Gt] = "save_crop"
  /\ \E raises \in BOOLEAN :
       IF \/ Len(data.crop_box) # 4
          \/ data.screen_w = 0 \/ data.screen_h = 0
          \/ raises
         THEN GroundFail /\ UNCHANGED tmpfiles
         ELSE /\ tmpfiles' = tmpfiles \cup {"ghost_crop"}
              /\ pc' = [pc EXCEPT ![Gt] = "vlm_open"]
              /\ UNCHANGED <<result, sent_status>>
  /\ UNCHANGED <<vlmvars, IDLE_TIMEOUT, idlevars, now, procvars, req, resp,
                 lastArrival, pathvars, data, full_text>>

\* lines 393-394
GroundSaveFull ==
  /\ pc[Gt] = "save_full"
  /\ \E raises \in BOOLEAN :
       IF raises
         THEN GroundFail /\ UNCHANGED tmpfiles
         ELSE /\ tmpfiles' = tmpfiles \cup {"ghost_full"}
              /\ pc' = [pc EXCEPT ![Gt] = "vlm_open"]
              /\ UNCHANGED <<result, sent_status>>
  /\ UNCHANGED <<vlmvars, IDLE_TIMEOUT, idlevars, now, procvars, req, resp,
                 lastArrival, pathvars, data, full_text>>

\* lines 152-159: open, resize, save the resized JPEG
VlmOpen ==
  /\ pc[Gt] = "vlm_open"
  /\ \E raises \in BOOLEAN :
       IF raises
         THEN GroundFail /\ UNCHANGED tmpfiles
         ELSE /\ tmpfiles' = tmpfiles \cup {"ghost_vlm"}
              /\ pc' = [pc EXCEPT ![Gt] = "generate"]
              /\ UNCHANGED <<result, sent_status>>
  /\ UNCHANGED <<vlmvars, IDLE_TIMEOUT, idlevars, now, procvars, req, resp,
                 lastArrival, pathvars, data, full_text>>

\* lines 176-192: chat template (needs the tokenizer) and inference
VlmGenerate ==
  /\ pc[Gt] = "generate"
  /\ \E raises \in BOOLEAN, out \in ModelOutputs :
       IF vlm_tokenizer = None \/ raises
         THEN GroundFail /\ UNCHANGED full_text
         ELSE /\ full_text' = out
              /\ pc' = [pc EXCEPT ![Gt] = "parse"]
              /\ UNCHANGED <<result, sent_status>>
  /\ UNCHANGED <<vlmvars, IDLE_TIMEOUT, idlevars, now, procvars, req, resp,
                 lastArrival, pathvars, data, tmpfiles>>

\* lines 195-236: remove the resized JPEG, parse, return the result
VlmParse ==
  /\ pc[Gt] = "parse"
  /\ tmpfiles' = tmpfiles \ {"ghost_vlm"}
  /\ LET box == data.crop_box
         w == IF box # <<>> THEN box[3] - box[1] ELSE data.screen_w
         h == IF box # <<>> THEN box[4] - box[2] ELSE data.screen_h
         rs == ParseResults(full_text, w, h)
     IN  IF rs = {} THEN GroundFail
         ELSE /\ \E r \in rs : result' = r
              /\ pc' = [pc EXCEPT ![Gt] = "map"]
              /\ UNCHANGED sent_status
  /\ UNCHANGED <<vlmvars, IDLE_TIMEOUT, idlevars, now, procvars, req, resp,
                 lastArrival, pathvars, data, full_text>>

\* lines 379-404: map to the full screen, tag, remove the image file, send 200
GroundRespond ==
  /\ pc[Gt] = "map"
  /\ IF data.crop_box # <<>>
       THEN \E r \in MapToScreen(result, data.crop_box, data.screen_w, data.screen_h) :
              result' = r
       ELSE result' = [result EXCEPT !.method = "full-screen"]
  /\ tmpfiles' = tmpfiles \ {HandlerFile}
  /\ sent_status' = 200
  /\ pc' = [pc EXCEPT ![Gt] = "idle"]
  /\ UNCHANGED <<vlmvars, IDLE_TIMEOUT, idlevars, now, procvars, req, resp,
                 lastArrival, pathvars, data, full_text>>

GroundNext ==
  \/ CallLoad(Gt) \/ load_vlm(Gt) \/ CallerReturn(Gt)
  \/ \E img \in {"png", "undecodable"}, w \in ScreenDims, h \in ScreenDims,
        box \in CropBoxes :
        GroundBegin([image |-> img, screen_w |-> w, screen_h |-> h, crop_box |-> box])
  \/ GroundDecode \/ GroundSaveCrop \/ GroundSaveFull
  \/ VlmOpen \/ VlmGenerate \/ VlmParse \/ GroundRespond

GroundSpec == Init /\ [][GroundNext]_vars

\* ---- the server under fair scheduling, with two request shapes ----
LiveRequests ==
  { [NoReq EXCEPT !.method = "GET", !.path = "/health"],
    [method |-> "POST", path |-> "/ground", body |-> "object", image |-> "png",
     description |-> "text", screen |-> "number", crop_box |-> "none"] }

LiveNext ==
  \/ MainStart \/ MainAfterLoad \/ MainBind \/ signal_handler \/ ServeForeverExit
  \/ Tick
  \/ \E i \in TimerIds : TimerExpire(i) \/ idle_shutdown(i)
  \/ load_vlm(Main) \/ reset_idle_timer(Main)
  \/ \E r \in LiveRequests : Arrive(Main, r)
  \/ do_GET(Main) \/ do_POST(Main) \/ GroundAfterLoad(Main) \/ Grounding(Main)
  \/ Finish(Main)

\* every thread that can run is eventually scheduled: the main thread goes on
\* with the request it handles and with the signal handler, a timer thread
\* that has started _idle_shutdown finishes it
HandlerProgress ==
  \/ load_vlm(Main) \/ reset_idle_timer(Main)
  \/ do_GET(Main) \/ do_POST(Main) \/ GroundAfterLoad(Main) \/ Grounding(Main)
  \/ Finish(Main)

LiveSpec ==
  /\ Init /\ [][LiveNext]_vars
  /\ WF_vars(HandlerProgress)
  /\ WF_vars(\E i \in TimerIds : idle_shutdown(i))
  /\ WF_vars(signal_handler)
  /\ WF_vars(ServeForeverExit)

\* ---- properties ----
LoadPcs == {"load_vlm", "load_model", "load_image_processor", "load_tokenizer", "load_ret"}
InFlightPcs == {"load_model", "load_image_processor", "load_tokenizer"}

\* the three parts of the handle are set and no error is stored
Loaded ==
  /\ vlm_model # None /\ vlm_processor = "slow" /\ vlm_tokenizer # None
  /\ vlm_load_error = None

\* the main thread takes a step of a request for which P holds
HandlerStepOf(P(_)) ==
  /\ pc'[Main] # pc[Main]
  /\ \/ req[Main] # NoReq /\ P(req[Main])
     \/ req'[Main] # NoReq /\ P(req'[Main])

\* the step starts no load attempt, does not enter _load_vlm or the grounding
\* and leaves the handle and the stored error alone
NoModelInteraction ==
  /\ cache' = cache
  /\ loadAttempts' = loadAttempts
  /\ vlm_lock' = vlm_lock
  /\ pc'[Main] \notin LoadPcs \cup {"grounding"}

IsGround(r) == r.method = "POST" /\ r.path = "/ground"
IsHealth(r) == r.method = "GET" /\ r.path = "/health"
IsStub(r) == r.method = "POST" /\ r.path \in {"/detect", "/parse"}
IsMalformedPost(r) == r.method = "POST" /\ r.body = "malformed"
Answered(t) == pc[t] = "done"

\* C1: however many threads call _load_vlm and however the calls interleave,
\* the load is attempted at most once, exactly once as soon as any call has
\* returned, and no call has returned while an attempt is in flight.
C1_SingleLoadAttempt ==
  /\ loadAttempts <= 1
  /\ rets # {} => /\ loadAttempts = 1
                  /\ \A u \in Callers : pc[u] \notin InFlightPcs

C1_Witness ==
  \E t, u, w \in Threads :
    /\ t # u /\ t # w /\ u # w
    /\ pc[t] = "load_ret" /\ pc[u] = "load_ret" /\ pc[w] = "load_vlm"
    /\ loadAttempts = 1

\* C2: no two calls of _load_vlm in one run return different values.
C2_SameOutcome == ~("True" \in rets /\ "False" \in rets)

\* C3: while a load error is stored, _load_vlm returns False and a POST /ground
\* that carries image and description is answered 503.
CarriesBoth(r) ==
  /\ IsGround(r) /\ r.body = "object"
  /\ r.image # "missing" /\ r.description # "missing" /\ r.screen = "number"

C3_FailurePermanent ==
  vlm_load_error # None =>
    /\ pc[Main] = "load_ret" => loadRet[Main] = "False"
    /\ (Answered(Main) /\ CarriesBoth(req[Main])) => resp[Main] = <<503>>

\* C4: once the load has succeeded no step changes model, processor, tokenizer
\* or stored error, no further load attempt starts, and every return of
\* _load_vlm is True.
C4_FrozenAfterSuccess ==
  [][Loaded =>
       /\ cache' = cache
       /\ loadAttempts' = loadAttempts
       /\ pc'[Main] = "load_ret" => loadRet'[Main] = "True"]_vars

C4_Witness ==
  /\ mode = "preload" /\ Loaded /\ loadAttempts = 1
  /\ Answered(Main) /\ IsGround(req[Main])
  /\ loadRet[Main] = "True" /\ resp[Main] = <<500>>

\* C5: no step of a GET /health request starts a load or changes the handle or
\* the stored error, and the request is answered 200.
C5_HealthNeverLoads ==
  [][HandlerStepOf(IsHealth) =>
       /\ NoModelInteraction
       /\ Answered(Main)' => resp'[Main] = <<200>>]_vars

C5_Witness ==
  /\ Answered(Main) /\ IsHealth(req[Main]) /\ resp[Main] = <<200>>
  /\ vlm_model = None /\ vlm_load_error = None /\ loadAttempts = 0

\* C6: a POST /ground without image or without description is answered 400.
LacksField(r, f) ==
  \/ r.body \in {"malformed", "nonobject"}
  \/ Field(r, f) = "missing"

C6_MissingFieldIs400 ==
  (/\ Answered(Main) /\ IsGround(req[Main])
   /\ LacksField(req[Main], "image") \/ LacksField(req[Main], "description"))
    => resp[Main] = <<400>>

\* C7: a POST whose body does not parse is answered 400 and none of its steps
\* enters _load_vlm or the grounding or changes the model cache.
C7_MalformedJsonIs400 ==
  [][HandlerStepOf(IsMalformedPost) =>
       /\ NoModelInteraction
       /\ Answered(Main)' => resp'[Main] = <<400>>]_vars

C7_Witness ==
  /\ Answered(Main) /\ IsGround(req[Main]) /\ req[Main].body = "malformed"
  /\ resp[Main] = <<400>> /\ loadAttempts = 0

\* C8: every POST /ground gets exactly one response, with status 200, 400,
\* 503 or 500.
C8_ExactlyOneResponse ==
  (Answered(Main) /\ IsGround(req[Main])) =>
    /\ Len(resp[Main]) = 1
    /\ resp[Main][1] \in {200, 400, 503, 500}

\* C9 as stated: POST /detect and POST /parse are answered 200 whatever the
\* body.
C9_StubsAlways200 ==
  (Answered(Main) /\ IsStub(req[Main])) => resp[Main] = <<200>>

\* C9 amended: POST /detect and POST /parse never start a model load; they are
\* answered 200 when the body is empty or parses as JSON and 400 when it
\* does not parse.
C9_StubsNeverLoad ==
  [][HandlerStepOf(IsStub) =>
       /\ NoModelInteraction
       /\ Answered(Main)' =>
            resp'[Main] = IF BodyParses(req'[Main]) THEN <<200>> ELSE <<400>>]_vars

C9_Witness ==
  /\ Answered(Main) /\ req[Main].path = "/detect" /\ req[Main].body = "nonobject"
  /\ resp[Main] = <<200>>
  /\ vlm_load_error # None

\* C10: the idle timer calls os.kill no earlier than IDLE_TIMEOUT after the
\* most recent request arrival.
C10_NoShutdownBeforeDeadline ==
  [][(/\ \E i \in TimerIds : timers[i].st = "running" /\ timers'[i].st = "done"
      /\ lastArrival >= 0)
       => now >= lastArrival + IDLE_TIMEOUT]_vars

\* C11: with the server created, a timer that has expired uncancelled leads to
\* the serve loop being stopped, and a request in flight when shutdown is
\* requested is finished by its handler first.
C11_IdleExpiryStops ==
  /\ (server_instance # None /\ \E i \in TimerIds : timers[i].st = "running")
       ~> (pc[Main] = "stopped")
  /\ (shutdown_requested /\ req[Main] # NoReq) ~> Answered(Main)
  /\ [](pc[Main] = "stopped" => req[Main] = NoReq)

C11_Witness ==
  /\ pc[Main] = "stopped" /\ exit_code = 0 /\ IDLE_TIMEOUT > 0
  /\ lastArrival = -1

\* C12: with a zero or negative timeout no Timer is ever created and no idle
\* shutdown happens.
C12_DisabledTimer ==
  (pc[Main] # "main" /\ IDLE_TIMEOUT <= 0) =>
    /\ \A i \in TimerIds : timers[i] = NoTimer
    /\ idle_timer = NoTimerId
    /\ ~sigterm /\ ~shutdown_requested
    /\ pc[Main] # "stopped"

C12_Witness ==
  /\ IDLE_TIMEOUT = 0 /\ Answered(Main) /\ now = MaxTime /\ lastArrival = 0

\* C18: health-check mode creates no server and no Timer, and its exit code
\* is 0 exactly when the load has succeeded, 1 otherwise.
C18_HealthCheckMode ==
  mode = "health_check" =>
    /\ server_instance = None
    /\ idle_timer = NoTimerId
    /\ \A i \in TimerIds : timers[i] = NoTimer
    /\ pc[Main] \in LoadPcs \cup {"exited"}
    /\ pc[Main] = "exited" => exit_code = IF Loaded THEN 0 ELSE 1
    /\ pc[Main] # "exited" => exit_code = Running

C18_Witness ==
  /\ mode = "health_check" /\ pc[Main] = "exited" /\ exit_code = 1
  /\ vlm_model # None /\ vlm_load_error # None

\* C20: outside the load lock the cache is unloaded, loaded or failed.
C20_ThreeStates ==
  vlm_lock = Free =>
    \/ vlm_model = None /\ vlm_processor = None /\ vlm_tokenizer = None
         /\ vlm_load_error = None
    \/ vlm_model # None /\ vlm_processor # None /\ vlm_tokenizer # None
         /\ vlm_load_error = None
    \/ vlm_model = None /\ vlm_load_error # None

Abs(n) == IF n < 0 THEN -n ELSE n
\* q is n / d at the precision q is counted in (no multiple is nearer)
WithinHalf(q, n, d) == 2 * Abs(q * d - n) <= d
\* the reference frame _vlm_ground was called with (lines 377, 396)
FrameW == IF data.crop_box # <<>> THEN data.crop_box[3] - data.crop_box[1]
          ELSE data.screen_w
FrameH == IF data.crop_box # <<>> THEN data.crop_box[4] - data.crop_box[2]
          ELSE data.screen_h
\* result is what _vlm_ground returned for full_text
EngineResult ==
  \/ pc[Gt] = "map"
  \/ sent_status = 200 /\ data.crop_box = <<>>

\* C13: when a /ground request has finished, with 200 or with 500, no
\* temporary image file is left.
C13_TempFilesRemoved ==
  pc[Gt] \notin GroundPcs => tmpfiles = {}

\* C14: for a parsed pair (a, b): both <= 1.0 gives confidence 0.8, x = a *
\* screen_w, y = b * screen_h and normalized = (a, b); otherwise confidence
\* 0.6, x = a, y = b and normalized = (a / screen_w, b / screen_h); absolute
\* values at one decimal, normalized ones at four; confidence is always one of
\* 0.0, 0.6, 0.8.
C14_Disambiguation ==
  /\ (EngineResult /\ full_text.kind = "pair") =>
       LET a == full_text.a
           b == full_text.b
       IN  IF a <= 100 /\ b <= 100
             THEN /\ result.confidence = 8
                  /\ WithinHalf(result.x, a * FrameW, 10)
                  /\ WithinHalf(result.y, b * FrameH, 10)
                  /\ result.normalized_x = a * 100
                  /\ result.normalized_y = b * 100
             ELSE /\ result.confidence = 6
                  /\ WithinHalf(result.x, a, 10)
                  /\ WithinHalf(result.y, b, 10)
                  /\ WithinHalf(result.normalized_x, a * 100, FrameW)
                  /\ WithinHalf(result.normalized_y, b * 100, FrameH)
  /\ (pc[Gt] = "map" \/ sent_status = 200) => result.confidence \in {0, 6, 8}

C14_Witness ==
  /\ pc[Gt] = "map" /\ data.crop_box = <<>> /\ data.screen_w = 3
  /\ full_text = [kind |-> "pair", a |-> 35, b |-> 1234]
  /\ result.confidence = 6 /\ result.x = 3 /\ result.normalized_x = 1167

\* C15: a model output without a usable coordinate pair never fails the
\* request: the answer is 200 with x = screen_w / 2, y = screen_h / 2,
\* confidence 0.0 and an error field.
C15_ParseFailureIs200 ==
  (sent_status # 0 /\ full_text.kind \in {"nomatch", "badnumber"}) =>
    /\ sent_status = 200
    /\ result.confidence = 0 /\ result.error
    /\ result.x = data.screen_w * 5 /\ result.y = data.screen_h * 5

\* C16: with a crop box (x1, y1, x2, y2) and a crop-relative pair (nx, ny), both
\* <= 1.0, the result is x = x1 + nx * (x2 - x1), y = y1 + ny * (y2 - y1) at one
\* decimal, normalized_x = x / screen_w and normalized_y = y / screen_h at four
\* decimals, tagged "crop-based" with the crop box echoed; screen 1000 x 1000,
\* box [100, 100, 600, 600] and (0.5, 0.5) give (350, 350).
C16_CropTranslation ==
  (/\ sent_status = 200 /\ Len(data.crop_box) = 4
   /\ full_text.kind = "pair" /\ full_text.a <= 100 /\ full_text.b <= 100) =>
    LET box == data.crop_box
    IN  /\ result.method = "crop-based" /\ result.crop_box = box
        /\ WithinHalf(result.x - box[1] * 10, full_text.a * (box[3] - box[1]), 10)
        /\ WithinHalf(result.y - box[2] * 10, full_text.b * (box[4] - box[2]), 10)
        /\ WithinHalf(result.normalized_x, result.x * 1000, data.screen_w)
        /\ WithinHalf(result.normalized_y, result.y * 1000, data.screen_h)
        /\ (/\ box = <<100, 100, 600, 600>>
            /\ data.screen_w = 1000 /\ data.screen_h = 1000
            /\ full_text.a = 50 /\ full_text.b = 50)
             => result.x = 3500 /\ result.y = 3500

C16_Witness ==
  /\ sent_status = 200 /\ data.crop_box = <<100, 100, 600, 600>>
  /\ data.screen_w = 1000 /\ data.screen_h = 1000
  /\ full_text = [kind |-> "pair", a |-> 50, b |-> 50]
  /\ result.x = 3500 /\ result.y = 3500
  /\ result.normalized_x = 3500 /\ result.normalized_y = 3500

\* C17: every 200 result has normalized_x and normalized_y in [0, 1].
C17_NormalizedInUnitInterval ==
  sent_status = 200 =>
    /\ result.normalized_x \in 0..10000
    /\ result.normalized_y \in 0..10000

\* a timer that is started, not cancelled and has not fired
Pending(i) == timers[i].st = "waiting" /\ ~timers[i].finished

\* C21: under concurrent _reset_idle_timer calls at most one timer is pending,
\* it is the one the most recent reset created (the one _idle_timer names),
\* and every timer an earlier reset created has been cancelled.
C21_SingleTimer ==
  /\ Cardinality({i \in TimerIds : Pending(i)}) <= 1
  /\ \A i \in TimerIds : Pending(i) => i = idle_timer
  /\ \A i \in TimerIds :
       (timers[i].st # "unused" /\ i # idle_timer) => timers[i].finished

C21_Witness ==
  /\ idle_timer = 2 /\ Pending(2)
  /\ timers[1].st = "done" /\ timers[1].finished
  /\ \E t, u \in Threads : t # u /\ pc[t] = "reset" /\ pc[u] = AfterReset(u)

TypeOK ==
  /\ vlm_model \in {None, "model"}
  /\ vlm_processor \in {None, "fast", "slow"}
  /\ vlm_tokenizer \in {None, "tokenizer"}
  /\ vlm_load_error \in {None, "error"}
  /\ vlm_lock \in {Free} \cup Callers
  /\ idle_lock \in {Free} \cup Callers
  /\ idle_timer \in {NoTimerId} \cup TimerIds
  /\ now \in 0..MaxTime
  /\ \A t \in Callers : Len(resp[t]) <= 1
  /\ \A t \in Callers : pc[t] = "reset_start" => FreeSlots # {}

====
